---------------------------- MODULE Spec2Model ----------------------------
(***************************************************************************)
(* Model of src/app.py: a Streamlit script that lists the spreadsheets of  *)
(* ./data, loads the chosen one, offers its subject columns, filters the   *)
(* rows marked 1 in the chosen subject, shows them and offers an Excel     *)
(* export.                                                                 *)
(*                                                                         *)
(* Text is a sequence of one-character strings.  The Korean literals of    *)
(* the source are written as one romanised token per syllable:             *)
(*   ban, hak geup, beon ho, i reum, seong myeong   (class, number, name)  *)
(*   sun beon, wol, hwa, su, mok, geum              (export header)        *)
(*   su hak                                         (a subject, "maths")   *)
(***************************************************************************)
EXTENDS Integers, Sequences, FiniteSets, TLC

VARIABLES
    pc,                 \* position of the script run
    files,              \* os.listdir(DATA_DIR)
    excel_files_sorted, \* line 226
    file_choice,        \* line 233
    book,               \* content of the selected file on disk
    reads,              \* times the selected file was opened and read
    df,                 \* lines 241-252
    detected,           \* class/no/name_col_detected, lines 259-261
    filterable_cols,    \* lines 273-275
    filter_col,         \* line 282
    title_text,         \* line 288
    df_one,             \* line 295
    display_cols,       \* line 301
    df_view,            \* lines 315, 317
    shown,              \* the rows st.dataframe renders, lines 314, 333
    xlsx,               \* the workbook build_formatted_excel returns
    download_name,      \* line 345
    downloads,          \* formats offered by a download button
    messages,           \* st.error / st.warning / st.success calls, in order
    arg,                \* input of the pure function under check
    out                 \* its result

vars == <<pc, files, excel_files_sorted, file_choice, book, reads, df,
          detected, filterable_cols, filter_col, title_text, df_one,
          display_cols, df_view, shown, xlsx, download_name, downloads,
          messages, arg, out>>

---------------------------------------------------------------------------
(* Bounds of the model.                                                    *)

\* longest cell text given to is_one
MaxLen == 3
\* most columns given to find_col
MaxFindCols == 3
\* most data rows (spreadsheet rows 3..173) of a sheet
MaxRows == 1

---------------------------------------------------------------------------
(* Fixed settings, lines 20-29.                                            *)

TARGET_SUM_ROW == 174

CANDIDATE_CLASS_COLS ==
    << <<"ban">>, <<"hak", "geup">>, <<"C", "l", "a", "s", "s">> >>

CANDIDATE_NO_COLS ==
    << <<"beon", "ho">>, <<"beon">>, <<"N", "o">> >>

CANDIDATE_NAME_COLS ==
    << <<"i", "reum">>, <<"seong", "myeong">>, <<"N", "a", "m", "e">> >>

\* Python's None, where a text is expected
None == <<"None">>

---------------------------------------------------------------------------
(* Text.                                                                   *)

Min(a, b) == IF a < b THEN a ELSE b

Max(a, b) == IF a < b THEN b ELSE a

Range(s) == {s[i] : i \in 1..Len(s)}

\* str.lower() on one character: only Latin capitals change
LowerChar(ch) ==
    CASE ch = "A" -> "a" [] ch = "C" -> "c" [] ch = "E" -> "e"
      [] ch = "L" -> "l" [] ch = "M" -> "m" [] ch = "N" -> "n"
      [] ch = "O" -> "o" [] ch = "S" -> "s" [] ch = "T" -> "t"
      [] ch = "X" -> "x" [] OTHER -> ch

\* str.lower()
Lower(s) == [i \in 1..Len(s) |-> LowerChar(s[i])]

\* str.strip(): leading and trailing blanks removed
RECURSIVE LStrip(_)
LStrip(s) ==
    IF s # <<>> /\ Head(s) = " " THEN LStrip(Tail(s)) ELSE s

RECURSIVE RStrip(_)
RStrip(s) ==
    IF s # <<>> /\ s[Len(s)] = " " THEN RStrip(SubSeq(s, 1, Len(s) - 1)) ELSE s

Strip(s) == RStrip(LStrip(s))

\* s[i:i+len(p)] == p
MatchAt(s, p, i) ==
    /\ i + Len(p) - 1 <= Len(s)
    /\ \A k \in 1..Len(p) : s[i + k - 1] = p[k]

\* str.endswith(suffix)
EndsWith(s, suffix) ==
    /\ Len(suffix) <= Len(s)
    /\ MatchAt(s, suffix, Len(s) - Len(suffix) + 1)

\* str.replace(old, ""): every occurrence of old, left to right, is dropped
RECURSIVE Remove(_, _)
Remove(s, old) ==
    IF s = <<>> THEN <<>>
    ELSE IF MatchAt(s, old, 1)
         THEN Remove(SubSeq(s, Len(old) + 1, Len(s)), old)
         ELSE <<Head(s)>> \o Remove(Tail(s), old)

\* re.compile(re.escape(cand), re.IGNORECASE).search(text): the scan of the
\* text for the first position where cand matches, case ignored
RECURSIVE SearchFrom(_, _, _)
SearchFrom(text, cand, i) ==
    IF i + Len(cand) - 1 > Len(text) THEN FALSE
    ELSE IF \A k \in 1..Len(cand) :
                LowerChar(text[i + k - 1]) = LowerChar(cand[k])
         THEN TRUE
         ELSE SearchFrom(text, cand, i + 1)

Search(cand, text) == SearchFrom(text, cand, 1)

---------------------------------------------------------------------------
(* find_col, lines 56-70.                                                  *)

\* {str(c).lower(): c for c in df_cols}: a later column replaces an earlier
\* one under the same key
RECURSIVE lower_cols(_)
lower_cols(df_cols) ==
    IF df_cols = <<>> THEN <<>>
    ELSE LET rest == lower_cols(SubSeq(df_cols, 1, Len(df_cols) - 1))
             c    == df_cols[Len(df_cols)]
             kept == SelectSeq(rest, LAMBDA e : e[1] # Lower(c))
         IN  Append(kept, <<Lower(c), c>>)

\* lower_cols[k], None when k is no key
DictGet(d, k) ==
    IF \E i \in 1..Len(d) : d[i][1] = k
    THEN d[CHOOSE i \in 1..Len(d) : d[i][1] = k][2]
    ELSE None

\* the first loop, lines 60-63
RECURSIVE ExactLoop(_, _, _)
ExactLoop(d, candidates, n) ==
    IF n > Len(candidates) THEN None
    ELSE LET k == Lower(candidates[n])
         IN  IF DictGet(d, k) # None THEN DictGet(d, k)
             ELSE ExactLoop(d, candidates, n + 1)

\* the inner loop, lines 67-69
RECURSIVE ColLoop(_, _, _)
ColLoop(df_cols, cand, j) ==
    IF j > Len(df_cols) THEN None
    ELSE IF Search(cand, df_cols[j]) THEN df_cols[j]
         ELSE ColLoop(df_cols, cand, j + 1)

\* the second loop, lines 65-69
RECURSIVE PartialLoop(_, _, _)
PartialLoop(df_cols, candidates, n) ==
    IF n > Len(candidates) THEN None
    ELSE LET c == ColLoop(df_cols, candidates[n], 1)
         IN  IF c # None THEN c
             ELSE PartialLoop(df_cols, candidates, n + 1)

\* faulty variant: the partial pass runs before the exact one
find_col_partial_first(df_cols, candidates) ==
    LET p == PartialLoop(df_cols, candidates, 1)
    IN  IF p # None THEN p
        ELSE ExactLoop(lower_cols(df_cols), candidates, 1)

find_col(df_cols, candidates) ==
    LET e == ExactLoop(lower_cols(df_cols), candidates, 1)
    IN  IF e # None THEN e
        ELSE PartialLoop(df_cols, candidates, 1)

---------------------------------------------------------------------------
(* Cell values.  A value is a record of one shape: k is its Python kind,   *)
(* n its number (a float in tenths), s its text.                           *)

NaN == [k |-> "nan", n |-> 0, s |-> <<>>]

IntCell(i) == [k |-> "int", n |-> i, s |-> <<>>]

FloatCell(tenths) == [k |-> "float", n |-> tenths, s |-> <<>>]

\* b is 1 for True, 0 for False
BoolCell(b) == [k |-> "bool", n |-> b, s |-> <<>>]

StrCell(t) == [k |-> "str", n |-> 0, s |-> t]

DigitChars == <<"0", "1", "2", "3", "4", "5", "6", "7", "8", "9">>

IsDigit(ch) == ch \in Range(DigitChars)

DigitVal(ch) == (CHOOSE i \in 1..10 : DigitChars[i] = ch) - 1

\* str() of a natural number
RECURSIVE NatStr(_)
NatStr(i) ==
    IF i < 10 THEN <<DigitChars[i + 1]>>
    ELSE NatStr(i \div 10) \o <<DigitChars[(i % 10) + 1]>>

IntStr(i) == IF i < 0 THEN <<"-">> \o NatStr(0 - i) ELSE NatStr(i)

\* str(x), line 78
Str(x) ==
    CASE x.k = "int"   -> IntStr(x.n)
      [] x.k = "float" ->
            (IF x.n < 0 THEN <<"-">> ELSE <<>>)
            \o NatStr((IF x.n < 0 THEN 0 - x.n ELSE x.n) \div 10)
            \o <<".">>
            \o NatStr((IF x.n < 0 THEN 0 - x.n ELSE x.n) % 10)
      [] x.k = "bool"  -> IF x.n = 1 THEN <<"T", "r", "u", "e">>
                          ELSE <<"F", "a", "l", "s", "e">>
      [] x.k = "str"   -> x.s
      [] OTHER         -> <<"n", "a", "n">>

\* the value of a run of digits
RECURSIVE DigitsVal(_)
DigitsVal(s) ==
    IF s = <<>> THEN 0
    ELSE 10 * DigitsVal(SubSeq(s, 1, Len(s) - 1)) + DigitVal(s[Len(s)])

RECURSIVE Pow10(_)
Pow10(e) == IF e = 0 THEN 1 ELSE 10 * Pow10(e - 1)

AllDigits(s) == \A i \in 1..Len(s) : IsDigit(s[i])

\* float(text) on the characters of the model (blank, sign, digits, point,
\* letters): [ok |-> FALSE] is ValueError, otherwise the value is
\* num / 10^scale.  float() itself ignores surrounding blanks.
ParseFloat(text) ==
    LET t    == Strip(text)
        neg  == t # <<>> /\ Head(t) = "-"
        u    == IF t # <<>> /\ Head(t) \in {"-", "+"} THEN Tail(t) ELSE t
        dots == {i \in 1..Len(u) : u[i] = "."}
        ip   == IF dots = {} THEN u
                ELSE SubSeq(u, 1, (CHOOSE i \in dots : TRUE) - 1)
        fp   == IF dots = {} THEN <<>>
                ELSE SubSeq(u, (CHOOSE i \in dots : TRUE) + 1, Len(u))
        wf   == /\ Cardinality(dots) <= 1
                /\ AllDigits(ip) /\ AllDigits(fp)
                /\ Len(ip) + Len(fp) > 0
    IN  IF wf
        THEN [ok |-> TRUE,
              num |-> (IF neg THEN -1 ELSE 1) * DigitsVal(ip \o fp),
              scale |-> Len(fp)]
        ELSE [ok |-> FALSE, num |-> 0, scale |-> 0]

\* pd.isna(x), line 75
isna(x) == x.k = "nan"

\* faulty variant: int() in the place of float(), which takes no decimal point
is_one_int(x) ==
    IF isna(x) THEN [raised |-> FALSE, value |-> FALSE]
    ELSE LET p == ParseFloat(Strip(Str(x)))
         IN  IF ~p.ok \/ "." \in Range(Str(x))
             THEN [raised |-> FALSE, value |-> FALSE]
             ELSE [raised |-> FALSE, value |-> p.num = 1]

\* is_one, lines 73-80: the result, or the exception that leaves it
is_one(x) ==
    IF isna(x) THEN [raised |-> FALSE, value |-> FALSE]
    ELSE LET p == ParseFloat(Strip(Str(x)))
         IN  IF ~p.ok
             THEN [raised |-> FALSE, value |-> FALSE]
             ELSE [raised |-> FALSE, value |-> p.num = Pow10(p.scale)]



---------------------------------------------------------------------------
(* The script run not started: the state of the specifications that check  *)
(* one function.                                                           *)

RunIdle ==
    /\ files = {} /\ excel_files_sorted = <<>> /\ file_choice = None
    /\ book = <<>> /\ reads = 0 /\ df = <<>> /\ detected = <<>>
    /\ filterable_cols = <<>> /\ filter_col = None /\ title_text = <<>>
    /\ df_one = <<>> /\ display_cols = <<>> /\ df_view = <<>>
    /\ shown = <<>> /\ xlsx = <<>> /\ download_name = <<>>
    /\ downloads = {} /\ messages = <<>>

\* every text of at most n characters of the alphabet
RECURSIVE Texts(_, _)
Texts(alphabet, n) ==
    IF n = 0 THEN {<<>>}
    ELSE LET shorter == Texts(alphabet, n - 1)
         IN  shorter \cup {Append(t, ch) : t \in shorter, ch \in alphabet}

---------------------------------------------------------------------------
(* Specification of is_one alone.                                          *)

CellAlphabet == {" ", "0", "1", "2", ".", "-", "a"}

CellInputs ==
    {NaN} \cup {IntCell(i) : i \in -1..12}
          \cup {FloatCell(t) : t \in {-10, 0, 5, 9, 10, 11, 15, 100}}
          \cup {BoolCell(b) : b \in {0, 1}}
          \cup {StrCell(t) : t \in Texts(CellAlphabet, MaxLen)}

InitIsOne ==
    /\ RunIdle /\ pc = "call"
    /\ arg \in CellInputs
    /\ out = [raised |-> FALSE, value |-> FALSE]

CallIsOne ==
    /\ pc = "call"
    /\ out' = is_one(arg)
    /\ pc' = "return"
    /\ UNCHANGED <<files, excel_files_sorted, file_choice, book, reads, df,
                   detected, filterable_cols, filter_col, title_text, df_one,
                   display_cols, df_view, shown, xlsx, download_name,
                   downloads, messages, arg>>

NextIsOne == CallIsOne

SpecIsOne == InitIsOne /\ [][NextIsOne]_vars

\* text that is the number 1: an optional sign, zeros, a one, and
\* optionally a point followed by zeros
OneText(t) ==
    \E i \in 1..Len(t) :
        /\ t[i] = "1"
        /\ \A j \in 1..(i - 1) : t[j] = "0" \/ (j = 1 /\ t[j] = "+")
        /\ \/ i = Len(t)
           \/ /\ t[i + 1] = "."
              /\ \A j \in (i + 2)..Len(t) : t[j] = "0"

\* text that is, between blanks, the number 1
TrimmedOneText(s) ==
    \E a \in 1..Len(s) : \E b \in a..Len(s) :
        /\ \A j \in 1..Len(s) : (j < a \/ j > b) => s[j] = " "
        /\ OneText(SubSeq(s, a, b))

MarkedOne(x) ==
    \/ x.k = "int" /\ x.n = 1
    \/ x.k = "float" /\ x.n = 10
    \/ x.k = "str" /\ TrimmedOneText(x.s)

---------------------------------------------------------------------------
(* Specification of find_col alone.                                        *)

ColumnNames ==
    { <<"ban">>, <<"i", "l", "ban">>, <<"hak", "geup">>,
      <<"c", "l", "a", "s", "s">>, <<"C", "L", "A", "S", "S">>,
      <<"beon", "ho">>, <<"beon">>, <<"ban", "beon", "ho">>,
      <<"N", "O">>, <<"n", "o", "t", "e">>,
      <<"i", "reum">>, <<"n", "a", "m", "e">>, <<"su", "hak">> }

CandidateLists ==
    {CANDIDATE_CLASS_COLS, CANDIDATE_NO_COLS, CANDIDATE_NAME_COLS}

InitFindCol ==
    /\ RunIdle /\ pc = "call"
    /\ arg \in [df_cols : Texts(ColumnNames, MaxFindCols),
                 candidates : CandidateLists]
    /\ out = None

CallFindCol ==
    /\ pc = "call"
    /\ out' = find_col(arg.df_cols, arg.candidates)
    /\ pc' = "return"
    /\ UNCHANGED <<files, excel_files_sorted, file_choice, book, reads, df,
                   detected, filterable_cols, filter_col, title_text, df_one,
                   display_cols, df_view, shown, xlsx, download_name,
                   downloads, messages, arg>>

NextFindCol == CallFindCol

SpecFindCol == InitFindCol /\ [][NextFindCol]_vars

\* cand occurs in text, case ignored
Occurs(cand, text) ==
    \E i \in 1..Len(text) : \E j \in i..Len(text) :
        Lower(SubSeq(text, i, j)) = Lower(cand)

\* the candidates some column equals, case ignored
ExactCands(df_cols, candidates) ==
    {n \in 1..Len(candidates) :
        \E j \in 1..Len(df_cols) : Lower(df_cols[j]) = Lower(candidates[n])}

\* the candidates that occur in some column
PartialCands(df_cols, candidates) ==
    {n \in 1..Len(candidates) :
        \E j \in 1..Len(df_cols) : Occurs(candidates[n], df_cols[j])}

Least(S) == CHOOSE n \in S : \A m \in S : n <= m

\* C6: an exact match (case ignored) wins over any partial one and is a
\* column equal to the earliest candidate that has one; failing that the
\* result is the first column containing the earliest candidate that
\* occurs anywhere; it is None exactly when no candidate occurs in any
\* column; a result other than None is one of the columns.
C6_FindColExactFirst ==
    pc = "return" =>
        LET cols  == arg.df_cols
            cands == arg.candidates
            ex    == ExactCands(cols, cands)
            pa    == PartialCands(cols, cands)
        IN  /\ ex # {} =>
                  /\ out # None
                  /\ Lower(out) = Lower(cands[Least(ex)])
            /\ (ex = {} /\ pa # {}) =>
                  LET c == cands[Least(pa)]
                  IN  out = cols[Least({j \in 1..Len(cols) :
                                          Occurs(c, cols[j])})]
            /\ (out = None) <=> (pa = {})
            /\ out # None => out \in Range(cols)

\* C6: the exact match "ban" was returned although the earlier column
\* "il-ban" contains the candidate
C6_Witness ==
    /\ pc = "return"
    /\ arg.df_cols = << <<"i", "l", "ban">>, <<"ban">> >>
    /\ arg.candidates = CANDIDATE_CLASS_COLS
    /\ out = <<"ban">>

---------------------------------------------------------------------------
(* Files and workbooks.                                                    *)

XLSX == <<".", "x", "l", "s", "x">>

XLS == <<".", "x", "l", "s">>

\* what os.listdir(DATA_DIR) may hold
Directories ==
    { {},
      {<<"n", ".", "t", "x", "t">>},
      {<<"w">> \o XLSX, <<"n", ".", "t", "x", "t">>},
      {<<"w", ".", "X", "L", "S", "X">>, <<"w">> \o XLS} }

\* the code point of a character of a file name
Ord(ch) ==
    CASE ch = "." -> 46 [] ch = "L" -> 76 [] ch = "S" -> 83 [] ch = "X" -> 88
      [] ch = "l" -> 108 [] ch = "n" -> 110 [] ch = "s" -> 115
      [] ch = "t" -> 116 [] ch = "w" -> 119 [] ch = "x" -> 120
      [] OTHER -> 0

\* a < b for Python strings
RECURSIVE StrLess(_, _)
StrLess(a, b) ==
    IF b = <<>> THEN FALSE
    ELSE IF a = <<>> THEN TRUE
    ELSE IF Head(a) # Head(b) THEN Ord(Head(a)) < Ord(Head(b))
    ELSE StrLess(Tail(a), Tail(b))

\* sorted(S)
RECURSIVE Sorted(_)
Sorted(S) ==
    IF S = {} THEN <<>>
    ELSE LET m == CHOOSE x \in S : \A y \in S \ {x} : StrLess(x, y)
         IN  <<m>> \o Sorted(S \ {m})

\* line 225: the names ending, case ignored, in .xlsx or .xls
excel_files(listing) ==
    {f \in listing : EndsWith(Lower(f), XLSX) \/ EndsWith(Lower(f), XLS)}

\* an empty spreadsheet cell, None to openpyxl
Blank == [k |-> "none", n |-> 0, s |-> <<>>]

\* str(None), line 101
NoneText == <<"N", "o", "n", "e">>

\* the values a cell of a sheet of the model holds
SheetCells == {Blank, IntCell(1)}

\* the header rows (spreadsheet row 2) of the model: name, class and number
\* in another order than the export's; no class column; a subject whose
\* header is repeated with a trailing blank; no subject at all; one column
\* that is both class and number; a lone subject; an empty sheet
HeaderRows ==
    { << <<"i", "reum">>, <<"ban">>, <<"beon", "ho">>, <<"su", "hak">> >>,
      << <<"beon", "ho">>, <<"i", "reum">>, <<"su", "hak">> >>,
      << <<"su", "hak">>, <<"su", "hak", " ">> >>,
      << <<"ban">>, <<"beon", "ho">>, <<"i", "reum">> >>,
      << <<"ban", "beon", "ho">>, <<"i", "reum">>, <<"su", "hak">> >>,
      << <<"su", "hak">> >>,
      << >> }

\* a workbook's first sheet: its header row, its data rows (spreadsheet rows
\* 3..173, blank rows left out) and its row TARGET_SUM_ROW
Books ==
    UNION { [headers : {h},
             rows : UNION {[1..n -> [1..Len(h) -> SheetCells]] :
                             n \in 0..(IF h = <<>> THEN 0 ELSE MaxRows)},
             sum : [1..Len(h) -> SheetCells]] : h \in HeaderRows }

\* the value pandas gives a cell: an empty one becomes NaN
PandasCell(v) == IF v.k = "none" THEN NaN ELSE v

\* pd.read_excel(header=1, usecols="A:AG") and line 252: every row below the
\* header, row TARGET_SUM_ROW included, under the stripped header texts
read_excel(b) ==
    LET all == b.rows \o <<b.sum>>
    IN  [columns |-> [i \in 1..Len(b.headers) |-> Strip(b.headers[i])],
         rows    |-> [r \in 1..Len(all) |->
                        [c \in 1..Len(b.headers) |-> PandasCell(all[r][c])]],
         index   |-> [r \in 1..Len(all) |-> r]]

\* column_index_from_string("AG") - column_index_from_string("A") + 1
UsecolsWidth == 33

\* str(v) of an openpyxl value
CellStr(v) == IF v.k = "none" THEN NoneText ELSE Str(v)

\* lines 99-103: the number of a cell, 0.0 when float() raises
v_num(v) ==
    LET p == ParseFloat(Strip(CellStr(v)))
    IN  IF p.ok THEN p ELSE [ok |-> TRUE, num |-> 0, scale |-> 0]

\* lines 97-104
row_vals(b) ==
    [col_idx \in 1..UsecolsWidth |->
        IF col_idx <= Len(b.sum) THEN v_num(b.sum[col_idx])
        ELSE v_num(Blank)]

\* read_excel_row_values_for_headers, lines 83-107: the dict of line 107, in
\* which the last column of a name decides the name's value
read_excel_row_values_for_headers(b, headers) ==
    LET vals == row_vals(b)
        n    == Min(Len(headers), Len(vals))
    IN  [h \in {headers[i] : i \in 1..n} |->
            vals[CHOOSE i \in 1..n :
                    /\ headers[i] = h
                    /\ \A j \in (i + 1)..n : headers[j] # h]]

\* faulty variant: load_workbook is called inside the loop over the columns
workbook_loads_per_column == UsecolsWidth

\* line 88: the times read_excel_row_values_for_headers opens the file
workbook_loads == 1

\* openpyxl's load_workbook takes a path only when its extension, in lower
\* case, is one of its formats; .xls is not
openpyxl_accepts(file) == EndsWith(Lower(file), XLSX)

\* line 271
zero_sum_cols(sum_map_174) ==
    {col \in DOMAIN sum_map_174 : sum_map_174[col].num = 0}

\* lines 259-261
detect(columns) ==
    [class |-> find_col(columns, CANDIDATE_CLASS_COLS),
     no    |-> find_col(columns, CANDIDATE_NO_COLS),
     name  |-> find_col(columns, CANDIDATE_NAME_COLS)]

\* line 262
blocked_cols(d) == {d.class, d.no, d.name} \ {None}

\* line 273
filterable(columns, blocked, zero) ==
    SelectSeq(columns, LAMBDA c : c \notin blocked /\ c \notin zero)

\* normalize_text, lines 51-53; the texts of the model are in NFC already
normalize_text(s) == IF s = None THEN <<>> ELSE s

\* the columns of a frame named by one label (pandas keeps every column of
\* that name)
Positions(columns, label) == {i \in 1..Len(columns) : columns[i] = label}

RECURSIVE SetToSeq(_)
SetToSeq(S) ==
    IF S = {} THEN <<>>
    ELSE LET m == CHOOSE x \in S : \A y \in S : x <= y
         IN  <<m>> \o SetToSeq(S \ {m})

\* frame[labels]: for each label in turn, the columns it names
RECURSIVE LabelPositions(_, _)
LabelPositions(columns, labels) ==
    IF labels = <<>> THEN <<>>
    ELSE SetToSeq(Positions(columns, Head(labels)))
         \o LabelPositions(columns, Tail(labels))

Project(frame, labels) ==
    LET pos == LabelPositions(frame.columns, labels)
    IN  [columns |-> [i \in 1..Len(pos) |-> frame.columns[pos[i]]],
         rows    |-> [r \in 1..Len(frame.rows) |->
                        [i \in 1..Len(pos) |-> frame.rows[r][pos[i]]]],
         index   |-> frame.index]

\* frame[mask]
RECURSIVE KeepRows(_, _)
KeepRows(mask, r) ==
    IF r > Len(mask) THEN <<>>
    ELSE (IF mask[r] THEN <<r>> ELSE <<>>) \o KeepRows(mask, r + 1)

Filtered(frame, mask) ==
    LET keep == KeepRows(mask, 1)
    IN  [columns |-> frame.columns,
         rows    |-> [i \in 1..Len(keep) |-> frame.rows[keep[i]]],
         index   |-> [i \in 1..Len(keep) |-> frame.index[keep[i]]]]

\* frame.head(n)
head(frame, n) ==
    [columns |-> frame.columns,
     rows    |-> SubSeq(frame.rows, 1, Min(n, Len(frame.rows))),
     index   |-> SubSeq(frame.index, 1, Min(n, Len(frame.index)))]

\* line 314: the rows of the preview shown when no display column is found
PreviewRows == 20

\* x or default, lines 297-299
OrDefault(x, default) == IF x = None THEN default ELSE x

\* lines 297-301
display_columns(columns) ==
    LET class_col == OrDefault(find_col(columns, CANDIDATE_CLASS_COLS),
                               <<"ban">>)
        no_col    == OrDefault(find_col(columns, CANDIDATE_NO_COLS),
                               <<"beon", "ho">>)
        name_col  == OrDefault(find_col(columns, CANDIDATE_NAME_COLS),
                               <<"i", "reum">>)
    IN  SelectSeq(<<class_col, no_col, name_col>>,
                  LAMBDA c : c \in Range(columns))

---------------------------------------------------------------------------
(* build_formatted_excel, lines 118-186.                                   *)

\* line 129
headers ==
    << <<"sun", "beon">>, <<"ban">>, <<"beon", "ho">>, <<"i", "reum">>,
       <<"wol">>, <<"hwa">>, <<"su">>, <<"mok">>, <<"geum">> >>

n_cols == Len(headers)

header_row == 3

start_row == header_row + 1

\* row.iloc[k] of lines 157-159 needs this many columns
IlocColumns == 3

\* lines 126-127
export_title(file, col) ==
    normalize_text(Strip(Remove(file, XLSX) \o <<" ">> \o col))

\* lines 166-167
end_row(n) ==
    Max(header_row, IF n > 0 THEN start_row + n - 1 ELSE header_row)

\* lines 138, 147-148, 154-161: the value of every cell the function makes
sheet_cells(view, title) ==
    LET n == Len(view.rows)
    IN  [rc \in ({<<1, 1>>}
                 \cup {<<header_row, c>> : c \in 1..n_cols}
                 \cup {<<r, c>> : r \in start_row..(start_row + n - 1),
                                  c \in 1..n_cols}) |->
            IF rc[1] = 1 THEN StrCell(title)
            ELSE IF rc[1] = header_row THEN StrCell(headers[rc[2]])
            ELSE IF rc[2] = 1 THEN IntCell(rc[1] - start_row + 1)
            ELSE IF rc[2] <= 1 + IlocColumns
                 THEN view.rows[rc[1] - start_row + 1][rc[2] - 1]
            ELSE Blank]

NoWorkbook ==
    [built |-> FALSE, title |-> <<>>, merged |-> <<>>, cells |-> <<>>,
     border |-> {}]

\* IndexError of row.iloc[k]: some row is written and the view has fewer
\* than three columns
iloc_raises(view) ==
    Len(view.rows) > 0 /\ Len(view.columns) < IlocColumns

build_formatted_excel(view, file, col) ==
    IF iloc_raises(view) THEN NoWorkbook
    ELSE [built  |-> TRUE,
          title  |-> export_title(file, col),
          merged |-> <<1, 1, 1, n_cols>>,
          cells  |-> sheet_cells(view, export_title(file, col)),
          border |-> {<<r, c>> : r \in header_row..end_row(Len(view.rows)),
                                 c \in 1..n_cols}]

\* build_pdf, lines 189-218: the table of the PDF, which no line calls
build_pdf(result, file, col) ==
    [title |-> normalize_text(col) \o <<" ">> \o normalize_text(file),
     table |-> IF result.rows = <<>> THEN <<>>
               ELSE <<result.columns>> \o result.rows]

\* faulty variant: a second button offers the PDF as well
download_buttons_with_pdf == {"xlsx", "pdf"}

\* lines 336-347: the download buttons of the page
download_buttons == {"xlsx"}

---------------------------------------------------------------------------
(* The script run, lines 224-349.                                          *)

NoFrame == [columns |-> <<>>, rows |-> <<>>, index |-> <<>>]

NoBook == [headers |-> <<>>, rows |-> <<>>, sum |-> <<>>]

NoDetected == [class |-> None, no |-> None, name |-> None]

Init ==
    /\ pc = "list"
    /\ files \in Directories
    /\ excel_files_sorted = <<>>
    /\ file_choice = None
    /\ book = NoBook
    /\ reads = 0
    /\ df = NoFrame
    /\ detected = NoDetected
    /\ filterable_cols = <<>>
    /\ filter_col = None
    /\ title_text = <<>>
    /\ df_one = NoFrame
    /\ display_cols = <<>>
    /\ df_view = NoFrame
    /\ shown = NoFrame
    /\ xlsx = NoWorkbook
    /\ download_name = <<>>
    /\ downloads = {}
    /\ messages = <<>>
    /\ arg = <<>>
    /\ out = <<>>

\* lines 224-232: the listing; st.error and st.stop when it is empty
ListFiles ==
    /\ pc = "list"
    /\ excel_files_sorted' = Sorted(excel_files(files))
    /\ IF excel_files(files) = {}
       THEN /\ messages' = Append(messages, "error: no files")
            /\ pc' = "stopped"
       ELSE /\ messages' = messages
            /\ pc' = "file"
    /\ UNCHANGED <<files, file_choice, book, reads, df, detected,
                   filterable_cols, filter_col, title_text, df_one,
                   display_cols, df_view, shown, xlsx, download_name,
                   downloads, arg, out>>

\* line 233: the user's choice in the first selectbox
SelectFile ==
    /\ pc = "file"
    /\ \E f \in Range(excel_files_sorted) : file_choice' = f
    /\ pc' = "load"
    /\ UNCHANGED <<files, excel_files_sorted, book, reads, df, detected,
                   filterable_cols, filter_col, title_text, df_one,
                   display_cols, df_view, shown, xlsx, download_name,
                   downloads, messages, arg, out>>

\* lines 240-252: pd.read_excel returns the frame of the workbook on disk
LoadExcel ==
    /\ pc = "load"
    /\ \E b \in Books :
          /\ book' = b
          /\ df' = read_excel(b)
    /\ reads' = reads + 1
    /\ pc' = "columns"
    /\ UNCHANGED <<files, excel_files_sorted, file_choice, detected,
                   filterable_cols, filter_col, title_text, df_one,
                   display_cols, df_view, shown, xlsx, download_name,
                   downloads, messages, arg, out>>

\* lines 248-250: pd.read_excel raises; st.error and st.stop
LoadExcelFails ==
    /\ pc = "load"
    /\ reads' = reads + 1
    /\ messages' = Append(messages, "error: load failed")
    /\ pc' = "stopped"
    /\ UNCHANGED <<files, excel_files_sorted, file_choice, book, df,
                   detected, filterable_cols, filter_col, title_text,
                   df_one, display_cols, df_view, shown, xlsx,
                   download_name, downloads, arg, out>>

\* lines 259-276: the detected columns, the second read of the file and the
\* subject options, all columns with a warning when none is left
BuildOptions ==
    /\ pc = "columns"
    /\ openpyxl_accepts(file_choice)
    /\ detected' = detect(df.columns)
    /\ reads' = reads + workbook_loads
    /\ LET zero == zero_sum_cols(
                     read_excel_row_values_for_headers(book, df.columns))
           opts == filterable(df.columns, blocked_cols(detect(df.columns)),
                              zero)
       IN  IF Len(opts) = 0
           THEN /\ filterable_cols' = df.columns
                /\ messages' = Append(messages, "warning: no filterable column")
           ELSE /\ filterable_cols' = opts
                /\ messages' = messages
    /\ pc' = "subject"
    /\ UNCHANGED <<files, excel_files_sorted, file_choice, book, df,
                   filter_col, title_text, df_one, display_cols, df_view,
                   shown, xlsx, download_name, downloads, arg, out>>

\* line 88 raises (the file is gone, or openpyxl refuses it): no handler
\* encloses the call of line 264, the exception leaves the script
ReadRowFails ==
    /\ pc = "columns"
    /\ detected' = detect(df.columns)
    /\ reads' = reads + workbook_loads
    /\ pc' = "crashed_row174"
    /\ UNCHANGED <<files, excel_files_sorted, file_choice, book, df,
                   filterable_cols, filter_col, title_text, df_one,
                   display_cols, df_view, shown, xlsx, download_name,
                   downloads, messages, arg, out>>

\* lines 281-283: the user's choice in the second selectbox, None when it
\* has no option
SelectSubject ==
    /\ pc = "subject"
    /\ IF filterable_cols = <<>>
       THEN filter_col' = None
       ELSE \E c \in Range(filterable_cols) : filter_col' = c
    /\ pc' = "filter"
    /\ UNCHANGED <<files, excel_files_sorted, file_choice, book, reads, df,
                   detected, filterable_cols, title_text, df_one,
                   display_cols, df_view, shown, xlsx, download_name,
                   downloads, messages, arg, out>>

\* the heading of line 288
heading(file, col) ==
    Remove(normalize_text(file), XLSX) \o <<" ">> \o normalize_text(col)
    \o <<" ", "su", "gang", "ja", " ", "myeong", "dan">>

\* df[filter_col].apply(is_one) raises: KeyError when filter_col is no
\* column; when several columns bear the name the selection is a frame,
\* is_one is given a whole column and the test of line 75 raises ValueError
mask_raises(frame, col) == Cardinality(Positions(frame.columns, col)) # 1

\* line 294
mask(frame, col) ==
    LET c == CHOOSE i \in Positions(frame.columns, col) : TRUE
    IN  [r \in 1..Len(frame.rows) |-> is_one(frame.rows[r][c]).value]

\* lines 288-301
FilterRows ==
    /\ pc = "filter"
    /\ title_text' = heading(file_choice, filter_col)
    /\ IF mask_raises(df, filter_col)
       THEN /\ pc' = "crashed_filter"
            /\ UNCHANGED <<df_one, display_cols>>
       ELSE /\ df_one' = Filtered(df, mask(df, filter_col))
            /\ display_cols' = display_columns(df.columns)
            /\ pc' = "render"
    /\ UNCHANGED <<files, excel_files_sorted, file_choice, book, reads, df,
                   detected, filterable_cols, filter_col, df_view, shown,
                   xlsx, download_name, downloads, messages, arg, out>>

\* lines 312-333: the view and the table on the page
Render ==
    /\ pc = "render"
    /\ IF display_cols = <<>>
       THEN /\ messages' = Append(messages, "warning: no display column")
            /\ shown' = head(df_one, PreviewRows)
            /\ df_view' = df_one
       ELSE /\ messages' = messages
            /\ df_view' = Project(df_one, display_cols)
            /\ shown' = Project(df_one, display_cols)
    /\ pc' = "download"
    /\ UNCHANGED <<files, excel_files_sorted, file_choice, book, reads, df,
                   detected, filterable_cols, filter_col, title_text,
                   df_one, display_cols, xlsx, download_name, downloads,
                   arg, out>>

\* lines 338-349: the export is built and offered; an IndexError of
\* build_formatted_excel leaves the script
Download ==
    /\ pc = "download"
    /\ IF iloc_raises(df_view)
       THEN /\ pc' = "crashed_export"
            /\ UNCHANGED <<xlsx, download_name, downloads, messages>>
       ELSE /\ xlsx' = build_formatted_excel(df_view, file_choice, filter_col)
            /\ download_name' =
                 Remove(normalize_text(file_choice), XLSX) \o <<"_">>
                 \o normalize_text(filter_col) \o XLSX
            /\ downloads' = download_buttons
            /\ messages' = Append(messages, "success")
            /\ pc' = "done"
    /\ UNCHANGED <<files, excel_files_sorted, file_choice, book, reads, df,
                   detected, filterable_cols, filter_col, title_text,
                   df_one, display_cols, df_view, shown, arg, out>>

Next ==
    \/ ListFiles
    \/ SelectFile
    \/ LoadExcel
    \/ LoadExcelFails
    \/ BuildOptions
    \/ ReadRowFails
    \/ SelectSubject
    \/ FilterRows
    \/ Render
    \/ Download

Spec == Init /\ [][Next]_vars

---------------------------------------------------------------------------
(* Properties of the script run.                                           *)

Crashed == {"crashed_row174", "crashed_filter", "crashed_export"}

\* the run is at or past the export stage
AtExport == pc \in {"done", "crashed_export"}

\* the rows of the sheet marked 1 in the selected subject, in sheet order
MarkedIndex ==
    LET c == CHOOSE i \in Positions(df.columns, filter_col) : TRUE
    IN  SelectSeq(df.index, LAMBDA r : MarkedOne(df.rows[r][c]))

\* the data rows of the export
ExportedRows ==
    {rc[1] : rc \in {x \in DOMAIN xlsx.cells : x[1] >= start_row}}

\* C1: for every loaded sheet and selected subject, the list on screen and
\* the list written to the Excel export are both exactly the rows marked 1
\* in the subject column, in sheet order.
C1_ListsAreMarkedRows ==
    AtExport =>
        /\ shown.index = MarkedIndex
        /\ xlsx.built
        /\ df_view.index = MarkedIndex
        /\ ExportedRows = start_row..(start_row + Len(MarkedIndex) - 1)

IsError(m) == m \in {"error: no files", "error: load failed"}

\* C3: every error ends in st.error followed by the stop of the run, no
\* later stage runs after it and none leaves the script as an exception.
C3_ErrorsAreReported ==
    /\ pc \notin Crashed
    /\ pc = "stopped" =>
          /\ messages # <<>> /\ IsError(messages[Len(messages)])
          /\ filterable_cols = <<>> /\ filter_col = None
          /\ shown = NoFrame /\ downloads = {}

\* C4 as stated: a run opens and reads the selected file at most once.
C4_ReadAtMostOnce == reads <= 1

\* C4 amended: a run reads the selected file at most twice: once in
\* pd.read_excel and, when that has returned, once more in load_workbook
\* for row 174; a run past that second read has read the file exactly twice.
C4_ReadTwice ==
    /\ reads <= 2
    /\ pc \in {"list", "file", "load"} => reads = 0
    /\ pc = "columns" => reads = 1
    /\ pc = "stopped" => reads <= 1
    /\ pc \in {"subject", "filter", "render", "download", "done"} \cup Crashed
          => reads = 2

\* C4: a run ended after both reads of the file
C4_Witness == pc = "done" /\ reads = 2

\* the value of row TARGET_SUM_ROW under the i-th column is zero
ZeroAt(i) ==
    LET v == book.sum[i]
    IN  ~(v.k \in {"int", "float"} /\ v.n # 0)

\* the columns, by position, that are no detected column and whose row
\* TARGET_SUM_ROW is not zero
OfferedByPosition ==
    LET keep == {i \in 1..Len(df.columns) :
                    /\ df.columns[i] \notin blocked_cols(detected)
                    /\ ~ZeroAt(i)}
        pos  == SetToSeq(keep)
    IN  [k \in 1..Len(pos) |-> df.columns[pos[k]]]

\* C7: the subject options are, in column order, exactly the columns that
\* are neither a detected class, number or name column nor zero in row 174
\* (values paired with headers by position); all columns are offered, with
\* a warning, if and only if that list is empty; a sheet with a column has
\* an option and the selected subject is one of its columns.
C7_OptionsByPosition ==
    pc \in {"subject", "filter", "render", "download", "done"} =>
        /\ OfferedByPosition # <<>> =>
              /\ filterable_cols = OfferedByPosition
              /\ "warning: no filterable column" \notin Range(messages)
        /\ OfferedByPosition = <<>> =>
              /\ filterable_cols = df.columns
              /\ "warning: no filterable column" \in Range(messages)
        /\ Len(df.columns) > 0 => filterable_cols # <<>>
        /\ (pc # "subject" /\ Len(df.columns) > 0)
              => filter_col \in Range(df.columns)

\* C8: for a view of n rows the export has the title in row 1 merged over
\* the 9 columns, the fixed header in row 3, n data rows in rows 4..3+n
\* numbered 1..n with columns 5..9 empty, and a thin border on exactly the
\* cells of columns 1..9 from row 3 to row 3+n.
C8_ExportLayout ==
    AtExport =>
        LET n == Len(df_view.rows)
        IN  /\ xlsx.built
            /\ xlsx.cells[<<1, 1>>] = StrCell(xlsx.title)
            /\ xlsx.merged = <<1, 1, 1, 9>>
            /\ \A c \in 1..9 : xlsx.cells[<<3, c>>] = StrCell(headers[c])
            /\ ExportedRows = 4..(3 + n)
            /\ \A i \in 1..n :
                  /\ xlsx.cells[<<3 + i, 1>>] = IntCell(i)
                  /\ \A c \in 5..9 : xlsx.cells[<<3 + i, c>>] = Blank
            /\ xlsx.border = {<<r, c>> : r \in 3..(3 + n), c \in 1..9}

\* the file name without its extension
Stem(file) ==
    IF EndsWith(Lower(file), XLSX) THEN SubSeq(file, 1, Len(file) - 5)
    ELSE IF EndsWith(Lower(file), XLS) THEN SubSeq(file, 1, Len(file) - 4)
    ELSE file

\* C9: for every file the list accepts, the export title is the file name
\* without its extension, a blank and the subject; the heading on the page
\* and the name of the download use the same extension-free name.
C9_TitleWithoutExtension ==
    pc = "done" =>
        /\ xlsx.title = Stem(file_choice) \o <<" ">> \o filter_col
        /\ MatchAt(title_text, Stem(file_choice) \o <<" ">> \o filter_col, 1)
        /\ download_name = Stem(file_choice) \o <<"_">> \o filter_col \o XLSX

\* the value of a row of df_one in the first column of a name
ValueIn(row, col) ==
    row[CHOOSE i \in Positions(df_one.columns, col) :
            \A j \in Positions(df_one.columns, col) : i <= j]

\* C10: in a run that reaches the export stage the export is built, and in
\* each data row the cells of columns 2, 3 and 4 hold the student's values
\* of the detected class, number and name columns, however many of the
\* three are detected.
C10_ValuesUnderTheirHeaders ==
    AtExport =>
        /\ xlsx.built
        /\ \A i \in 1..Len(df_one.rows) :
              /\ detected.class # None =>
                    xlsx.cells[<<3 + i, 2>>]
                        = ValueIn(df_one.rows[i], detected.class)
              /\ detected.no # None =>
                    xlsx.cells[<<3 + i, 3>>]
                        = ValueIn(df_one.rows[i], detected.no)
              /\ detected.name # None =>
                    xlsx.cells[<<3 + i, 4>>]
                        = ValueIn(df_one.rows[i], detected.name)

====
